---- MODULE Spec2Model ----
(***************************************************************************)
(* Client-side event stabilization layer of the dashboard (App.tsx):       *)
(* status poll + WebSocket lifecycle, the 300 ms throttle, the emotion     *)
(* freeze, the sticky flag list, the 60-point stress history and the       *)
(* supplementary polls.  Times are milliseconds as returned by Date.now(). *)
(* With it: the image retry of CameraFeed.tsx and the start-up sequence of *)
(* the launcher runner.js.                                                 *)
(***************************************************************************)
EXTENDS Integers, Sequences, FiniteSets, TLC

\* ------------------------------------------------------------------------
\* Program constants
\* ------------------------------------------------------------------------
THROTTLE_MS == 300
DWELL_MS == 2000
MIN_VISIBLE_MS == 3000
HISTORY_LEN == 60
MAX_FLAGS == 5
\* CameraFeed: delay of the image reload
RETRY_MS == 3000
\* runner.js: maxAttempts of the backend health loop
MAX_ATTEMPTS == 60

\* ------------------------------------------------------------------------
\* Bounds of the model
\* ------------------------------------------------------------------------
\* Date.now() at mount; the refs start at 0, so the first message is never
\* throttled and the first differing emotion is never inside the dwell time.
StartTime == 3000
\* how far the clock runs after mount, per specification
Horizon == 300
\* WebSocket objects ever created
MaxSockets == 2
\* overlapping fetches of one poll
MaxInFlight == 1
\* image load errors of the camera feed
MaxRetries == 2

\* null / undefined of a string field
Null == "null"
\* an optional value is the empty sequence or a one-element sequence
None == <<>>

VARIABLES
    now,                  \* Date.now()
    mounted,              \* the App component is mounted
    currentEmotion,       \* useState<Emotion | null>
    microData,            \* useState<MicroExpressions | null>
    status,               \* useState<Status>
    cameraActive,         \* useState(false)
    blinkStats,           \* useState {count, perMin}
    lipState,             \* useState 'lip_calm'
    lipConfidence,        \* useState 0
    displayedFlags,       \* useState<{text, ts}[]>
    stressHistory,        \* useState<number[]>
    wsCurrent,            \* ws.current: index into sockets, 0 = null
    lastUpdateRef,        \* lastUpdateRef.current
    lastEmotionChangeRef, \* lastEmotionChangeRef.current
    pendingEmotionRef,    \* pendingEmotionRef.current
    sockets,              \* readyState of every WebSocket created so far
    statusInterval,       \* the setInterval(checkStatus, 5000) timer is live
    statusFetches,        \* checkStatus calls awaiting their fetch
    blinkInterval,        \* the blink-stats poll timer is live
    blinkFetches,
    lipInterval,          \* the predict_frame poll timer is live
    lipFetches,
    lastEvent,            \* the last push message handled and what became of it
    lastPoll,             \* the last poll that resumed, and how its fetch ended
    voiceData,            \* VoiceStatus: useState<VoiceData | null>
    voiceError,           \* VoiceStatus: useState(false)
    voiceInterval,        \* VoiceStatus: the 500 ms poll timer is live
    voiceFetches,         \* VoiceStatus: fetchVoiceStatus calls awaiting their fetch
    isActive,             \* CameraFeed: the isActive prop
    imgError,             \* CameraFeed: useState(false)
    retryKey,             \* CameraFeed: useState(0)
    retryTimer,           \* CameraFeed: due time of the pending setTimeout, if any
    pc,                   \* runner.js: where start() is
    portsCleaned,         \* runner.js: ports whose killPort() has resolved
    spawned,              \* runner.js: child processes spawned
    backendReady,         \* runner.js: start()'s local backendReady
    attempts              \* runner.js: start()'s local attempts

viewVars == <<currentEmotion, microData, status, cameraActive, blinkStats,
              lipState, lipConfidence, displayedFlags, stressHistory>>
refVars == <<wsCurrent, lastUpdateRef, lastEmotionChangeRef, pendingEmotionRef>>
envVars == <<sockets, statusInterval, statusFetches, blinkInterval,
             blinkFetches, lipInterval, lipFetches>>
voiceVars == <<voiceData, voiceError, voiceInterval, voiceFetches>>
cameraVars == <<isActive, imgError, retryKey, retryTimer>>
launcherVars == <<pc, portsCleaned, spawned, backendReady, attempts>>
vars == <<now, mounted, viewVars, refVars, envVars, lastEvent, lastPoll, voiceVars,
          cameraVars, launcherVars>>

\* ------------------------------------------------------------------------
\* Helpers
\* ------------------------------------------------------------------------
RECURSIVE Zeros(_)
Zeros(n) == IF n = 0 THEN <<>> ELSE Append(Zeros(n - 1), 0)

\* Math.round(x / den) for integers x, den > 0 (round half up)
RoundDiv(x, den) == (2 * x + den) \div (2 * den)

Range(s) == {s[i] : i \in 1..Len(s)}

\* Array.prototype.slice(0, n)
Slice0(s, n) == SubSeq(s, 1, IF Len(s) < n THEN Len(s) ELSE n)

\* React drops state updates of an unmounted component
SetState(old, new) == IF mounted THEN new ELSE old

\* ------------------------------------------------------------------------
\* Throttle
\* ------------------------------------------------------------------------
\* mutant: the boundary instant still counts as inside the window
ThrottledInclusive(t, last) == t - last <= THROTTLE_MS

\* mutant: the window is taken in seconds
ThrottledSeconds(t, last) == t - last < THROTTLE_MS \div 1000

Throttled(t, last) == t - last < THROTTLE_MS

\* mutant: the last-accepted time is stamped before the early return
ThrottleStepStampsFirst(t, last) ==
    [pass |-> ~Throttled(t, last), lastUpdateRef |-> t]

\* the first three statements of onmessage: read the clock, return when the
\* window is still open, else stamp the last-accepted time
ThrottleStep(t, last) ==
    IF Throttled(t, last) THEN [pass |-> FALSE, lastUpdateRef |-> last]
    ELSE [pass |-> TRUE, lastUpdateRef |-> t]

\* ------------------------------------------------------------------------
\* Emotion freeze
\* ------------------------------------------------------------------------
\* `currentEmotion` as the onmessage handler sees it.  checkStatus is created
\* by the mount effect (deps [backendUrl], and backendUrl has no setter), so
\* the connectWebSocket it calls, and the handler that one installs, are the
\* closures of the first render, where currentEmotion is its initial value.
CapturedCurrentEmotion == None

\* confidence arrives as a fraction; the model carries it in thousandths
NextEmotion(data) ==
    <<[name |-> data.emotion, confidence |-> RoundDiv(data.confidence * 100, 1000)]>>

\* mutant: losing the face is damped like a change of label
EmotionUpdateDampedLoss(seen, data, t, cur, lastChange, pending) ==
    IF data.faceDetected /\ data.emotion # Null
    THEN [currentEmotion |-> NextEmotion(data), status |-> "processing",
          lastEmotionChangeRef |-> t, pendingEmotionRef |-> None]
    ELSE [currentEmotion |-> IF t - lastChange >= DWELL_MS THEN None ELSE cur,
          status |-> "connected",
          lastEmotionChangeRef |-> lastChange, pendingEmotionRef |-> pending]

\* mutant: an event with a face but no label keeps the displayed emotion
EmotionUpdateKeepsUnlabelled(seen, data, t, cur, lastChange, pending) ==
    IF data.faceDetected /\ data.emotion # Null
    THEN [currentEmotion |-> NextEmotion(data), status |-> "processing",
          lastEmotionChangeRef |-> t, pendingEmotionRef |-> None]
    ELSE [currentEmotion |-> IF data.faceDetected THEN cur ELSE None,
          status |-> "connected",
          lastEmotionChangeRef |-> lastChange, pendingEmotionRef |-> pending]

\* the "Update Emotion" block: new currentEmotion, status and the two refs
EmotionUpdate(seen, data, t, cur, lastChange, pending) ==
    IF data.faceDetected /\ data.emotion # Null
    THEN IF seen = None \/ seen[1].name = data.emotion
         THEN [currentEmotion |-> NextEmotion(data), status |-> "processing",
               lastEmotionChangeRef |-> t, pendingEmotionRef |-> None]
         ELSE IF t - lastChange >= DWELL_MS
              THEN [currentEmotion |-> NextEmotion(data), status |-> "processing",
                    lastEmotionChangeRef |-> t, pendingEmotionRef |-> None]
              ELSE [currentEmotion |-> cur, status |-> "processing",
                    lastEmotionChangeRef |-> lastChange,
                    pendingEmotionRef |-> NextEmotion(data)]
    ELSE [currentEmotion |-> None, status |-> "connected",
          lastEmotionChangeRef |-> lastChange, pendingEmotionRef |-> pending]

\* ------------------------------------------------------------------------
\* Stress history
\* ------------------------------------------------------------------------
\* mutant: the new sample goes in at the head
PushHistoryFront(prev, v) == <<v>> \o SubSeq(prev, 1, Len(prev) - 1)

\* mutant: the oldest sample is not dropped
PushHistoryGrow(prev, v) == Append(prev, v)

PushHistory(prev, v) == Append(Tail(prev), v)

\* height of one timeline bar, in percent
BarHeight(val) ==
    LET lo == IF val > 0 THEN val ELSE 0
    IN  IF lo < 100 THEN lo ELSE 100

\* ------------------------------------------------------------------------
\* Sticky flags
\* ------------------------------------------------------------------------
\* map.has(f)
MapHas(m, f) == \E i \in 1..Len(m) : m[i].text = f

\* mutant: map.set(f, nowTs) without the has() test: a re-reported text gets
\* a new time stamp (Map.set keeps the key's position)
RECURSIVE AddIncomingRefresh(_, _, _)
AddIncomingRefresh(m, incoming, nowTs) ==
    IF incoming = <<>> THEN m
    ELSE LET f == Head(incoming)
             m2 == IF MapHas(m, f)
                   THEN [i \in 1..Len(m) |->
                           IF m[i].text = f THEN [text |-> f, ts |-> nowTs] ELSE m[i]]
                   ELSE Append(m, [text |-> f, ts |-> nowTs])
         IN  AddIncomingRefresh(m2, Tail(incoming), nowTs)

\* incoming.forEach(f => { if (!map.has(f)) map.set(f, nowTs) })
RECURSIVE AddIncoming(_, _, _)
AddIncoming(m, incoming, nowTs) ==
    IF incoming = <<>> THEN m
    ELSE LET f == Head(incoming)
             m2 == IF MapHas(m, f) THEN m ELSE Append(m, [text |-> f, ts |-> nowTs])
         IN  AddIncoming(m2, Tail(incoming), nowTs)

\* mutant: a flag that is exactly 3 s old is still kept
KeepFlagInclusive(r, incoming, nowTs) ==
    r.text \in Range(incoming) \/ nowTs - r.ts <= MIN_VISIBLE_MS

\* mutant: only the age decides, a reported flag expires too
KeepFlagYoungOnly(r, incoming, nowTs) == nowTs - r.ts < MIN_VISIBLE_MS

\* map.forEach: keep what is reported now or younger than 3 s
KeepFlag(r, incoming, nowTs) ==
    r.text \in Range(incoming) \/ nowTs - r.ts < MIN_VISIBLE_MS

FilterFlags(m, incoming, nowTs) ==
    SelectSeq(m, LAMBDA r : KeepFlag(r, incoming, nowTs))

\* mutant: an unstable sort that puts a record before its equals
RECURSIVE InsertByTsUnstable(_, _)
InsertByTsUnstable(sorted, r) ==
    IF sorted = <<>> THEN <<r>>
    ELSE IF sorted[Len(sorted)].ts < r.ts THEN Append(sorted, r)
    ELSE Append(InsertByTsUnstable(SubSeq(sorted, 1, Len(sorted) - 1), r),
                sorted[Len(sorted)])

\* next.sort((a, b) => a.ts - b.ts): Array.prototype.sort is stable
RECURSIVE InsertByTs(_, _)
InsertByTs(sorted, r) ==
    IF sorted = <<>> THEN <<r>>
    ELSE IF sorted[Len(sorted)].ts <= r.ts THEN Append(sorted, r)
    ELSE Append(InsertByTs(SubSeq(sorted, 1, Len(sorted) - 1), r),
                sorted[Len(sorted)])

RECURSIVE SortByTs(_)
SortByTs(s) ==
    IF s = <<>> THEN <<>>
    ELSE InsertByTs(SortByTs(SubSeq(s, 1, Len(s) - 1)), s[Len(s)])

\* mutant: the result is not cut to 5
NextFlagsNoCap(prev, flags, nowTs) ==
    LET incoming == Slice0(flags, MAX_FLAGS)
        map == AddIncoming(prev, incoming, nowTs)
    IN  SortByTs(FilterFlags(map, incoming, nowTs))

\* mutant: the updater returns early when nothing is reported
NextFlagsSkipEmpty(prev, flags, nowTs) ==
    LET incoming == Slice0(flags, MAX_FLAGS)
        map == AddIncoming(prev, incoming, nowTs)
        next == FilterFlags(map, incoming, nowTs)
    IN  IF incoming = <<>> THEN prev ELSE Slice0(SortByTs(next), MAX_FLAGS)

\* mutant: next.slice(-5), the newest five are kept
NextFlagsKeepsNewest(prev, flags, nowTs) ==
    LET incoming == Slice0(flags, MAX_FLAGS)
        map == AddIncoming(prev, incoming, nowTs)
        next == SortByTs(FilterFlags(map, incoming, nowTs))
    IN  IF Len(next) <= MAX_FLAGS THEN next
        ELSE SubSeq(next, Len(next) - MAX_FLAGS + 1, Len(next))

\* the setDisplayedFlags updater
NextFlags(prev, flags, nowTs) ==
    LET incoming == Slice0(flags, MAX_FLAGS)
        map == AddIncoming(prev, incoming, nowTs)
        next == FilterFlags(map, incoming, nowTs)
    IN  Slice0(SortByTs(next), MAX_FLAGS)

\* ------------------------------------------------------------------------
\* Connection
\* ------------------------------------------------------------------------
\* connectWebSocket up to the handler assignments
\* mutant: `if (ws.current) return;`, whatever the socket's readyState
ConnectWebSocketOnce(socks, cur) ==
    IF cur # 0
    THEN [sockets |-> socks, wsCurrent |-> cur]
    ELSE [sockets |-> Append(socks, "CONNECTING"), wsCurrent |-> Len(socks) + 1]

ConnectWebSocket(socks, cur) ==
    IF cur # 0 /\ socks[cur] = "OPEN"
    THEN [sockets |-> socks, wsCurrent |-> cur]
    ELSE [sockets |-> Append(socks, "CONNECTING"), wsCurrent |-> Len(socks) + 1]

\* WebSocket.close()
CloseSocket(readyState) ==
    IF readyState \in {"CONNECTING", "OPEN"} THEN "CLOSING" ELSE readyState

\* ------------------------------------------------------------------------
\* Initial state: first render, mount effects run
\* ------------------------------------------------------------------------
\* a push message: JSON text that parses to an AnalysisData, or does not parse
Msg(face, emotion, confidence, micro, blinkCount) ==
    [malformed |-> FALSE, faceDetected |-> face, emotion |-> emotion,
     confidence |-> confidence, micro_expressions |-> micro,
     blink_count |-> blinkCount]

Malformed ==
    [malformed |-> TRUE, faceDetected |-> FALSE, emotion |-> Null,
     confidence |-> 0, micro_expressions |-> None, blink_count |-> None]

\* micro_expressions object; blink_rate is carried in tenths
Micro(stress, blinkRate, flags) ==
    <<[stress_index |-> stress, blink_rate |-> blinkRate, flags |-> flags]>>

NoEvent ==
    [outcome |-> "none", data |-> Malformed, at |-> 0, nowTs |-> 0,
     before |-> [currentEmotion |-> None, lastEmotionChangeRef |-> 0,
                 lastUpdateRef |-> 0, displayedFlags |-> <<>>]]

Init ==
    /\ now = StartTime
    /\ mounted = TRUE
    /\ currentEmotion = None
    /\ microData = None
    /\ status = "disconnected"
    /\ cameraActive = FALSE
    /\ blinkStats = [count |-> 0, perMin |-> None]
    /\ lipState = "lip_calm"
    /\ lipConfidence = 0
    /\ displayedFlags = <<>>
    /\ stressHistory = Zeros(HISTORY_LEN)
    /\ wsCurrent = 0
    /\ lastUpdateRef = 0
    /\ lastEmotionChangeRef = 0
    /\ pendingEmotionRef = None
    /\ sockets = <<>>
    /\ statusInterval = TRUE
    /\ statusFetches = 1
    /\ blinkInterval = TRUE
    /\ blinkFetches = 0
    /\ lipInterval = TRUE
    /\ lipFetches = 0
    /\ lastEvent = NoEvent
    /\ lastPoll = [poll |-> "none", result |-> "none"]
    /\ voiceData = None
    /\ voiceError = FALSE
    /\ voiceInterval = TRUE
    /\ voiceFetches = 1
    /\ isActive = TRUE
    /\ imgError = FALSE
    /\ retryKey = 0
    /\ retryTimer = None
    /\ pc = "killBackendPort"
    /\ portsCleaned = {}
    /\ spawned = {}
    /\ backendReady = FALSE
    /\ attempts = 0

\* ------------------------------------------------------------------------
\* Actions
\* ------------------------------------------------------------------------
\* mutant: a timer clears a displayed emotion that no event has refreshed
\* for the dwell time
AdvanceExpiresEmotion(d) ==
    /\ now' = now + d
    /\ currentEmotion' =
          IF now + d - lastEmotionChangeRef >= DWELL_MS THEN None
          ELSE currentEmotion
    /\ UNCHANGED <<mounted, microData, status, cameraActive, blinkStats,
                   lipState, lipConfidence, displayedFlags, stressHistory,
                   refVars, envVars, lastEvent, lastPoll, voiceVars,
                   cameraVars, launcherVars>>

\* time passes
Advance(d) ==
    /\ now' = now + d
    /\ UNCHANGED <<mounted, viewVars, refVars, envVars, lastEvent>>
    /\ UNCHANGED <<lastPoll, voiceVars, cameraVars, launcherVars>>

\* setInterval(checkStatus, 5000) fires: checkStatus starts its fetch
StatusTimerFire ==
    /\ statusInterval
    /\ statusFetches < MaxInFlight
    /\ statusFetches' = statusFetches + 1
    /\ UNCHANGED <<now, mounted, viewVars, refVars, lastEvent, sockets,
                   statusInterval, blinkInterval, blinkFetches, lipInterval,
                   lipFetches>>
    /\ UNCHANGED <<lastPoll, voiceVars, cameraVars, launcherVars>>

\* checkStatus resumes after its awaits with backendConnected = true
CheckStatusHealthy(videoStreamActive) ==
    LET c == ConnectWebSocket(sockets, wsCurrent) IN
    /\ statusFetches > 0
    /\ Len(c.sockets) <= MaxSockets
    /\ statusFetches' = statusFetches - 1
    /\ status' = SetState(status, "connected")
    /\ cameraActive' = SetState(cameraActive, videoStreamActive)
    /\ sockets' = c.sockets
    /\ wsCurrent' = c.wsCurrent
    /\ UNCHANGED <<now, mounted, currentEmotion, microData, blinkStats, lipState,
                   lipConfidence, displayedFlags, stressHistory, lastUpdateRef,
                   lastEmotionChangeRef, pendingEmotionRef, statusInterval,
                   blinkInterval, blinkFetches, lipInterval, lipFetches, lastEvent>>
    /\ lastPoll' = [poll |-> "status", result |-> "healthy"]
    /\ UNCHANGED <<voiceVars, cameraVars, launcherVars>>

\* mutant: connectWebSocket is called whatever backendConnected says
CheckStatusUnhealthyConnects ==
    LET c == ConnectWebSocket(sockets, wsCurrent) IN
    /\ statusFetches > 0
    /\ Len(c.sockets) <= MaxSockets
    /\ statusFetches' = statusFetches - 1
    /\ sockets' = c.sockets
    /\ wsCurrent' = c.wsCurrent
    /\ lastPoll' = [poll |-> "status", result |-> "unhealthy"]
    /\ UNCHANGED <<now, mounted, viewVars, lastUpdateRef, lastEmotionChangeRef,
                   pendingEmotionRef, lastEvent, statusInterval, blinkInterval,
                   blinkFetches, lipInterval, lipFetches, voiceVars,
                   cameraVars, launcherVars>>

\* mutant: backendConnected = false is shown as offline
CheckStatusUnhealthyDisconnects ==
    /\ statusFetches > 0
    /\ statusFetches' = statusFetches - 1
    /\ status' = SetState(status, "disconnected")
    /\ lastPoll' = [poll |-> "status", result |-> "unhealthy"]
    /\ UNCHANGED <<now, mounted, currentEmotion, microData, cameraActive,
                   blinkStats, lipState, lipConfidence, displayedFlags,
                   stressHistory, refVars, lastEvent, sockets, statusInterval,
                   blinkInterval, blinkFetches, lipInterval, lipFetches,
                   voiceVars,
                   cameraVars, launcherVars>>

\* checkStatus resumes with backendConnected = false: nothing happens
CheckStatusUnhealthy ==
    /\ statusFetches > 0
    /\ statusFetches' = statusFetches - 1
    /\ UNCHANGED <<now, mounted, viewVars, refVars, lastEvent, sockets,
                   statusInterval, blinkInterval, blinkFetches, lipInterval,
                   lipFetches>>
    /\ lastPoll' = [poll |-> "status", result |-> "unhealthy"]
    /\ UNCHANGED <<voiceVars, cameraVars, launcherVars>>

\* fetch or response.json() throws
CheckStatusFailed ==
    /\ statusFetches > 0
    /\ statusFetches' = statusFetches - 1
    /\ status' = SetState(status, "disconnected")
    /\ cameraActive' = SetState(cameraActive, FALSE)
    /\ UNCHANGED <<now, mounted, currentEmotion, microData, blinkStats, lipState,
                   lipConfidence, displayedFlags, stressHistory, refVars,
                   lastEvent, sockets, statusInterval, blinkInterval,
                   blinkFetches, lipInterval, lipFetches>>
    /\ lastPoll' = [poll |-> "status", result |-> "failed"]
    /\ UNCHANGED <<voiceVars, cameraVars, launcherVars>>

\* the open event of socket s: onopen
WsOpen(s) ==
    /\ s \in 1..Len(sockets)
    /\ sockets[s] = "CONNECTING"
    /\ sockets' = [sockets EXCEPT ![s] = "OPEN"]
    /\ status' = SetState(status, "connected")
    /\ UNCHANGED <<now, mounted, currentEmotion, microData, cameraActive,
                   blinkStats, lipState, lipConfidence, displayedFlags,
                   stressHistory, refVars, lastEvent, statusInterval,
                   statusFetches, blinkInterval, blinkFetches, lipInterval,
                   lipFetches>>
    /\ UNCHANGED <<lastPoll, voiceVars, cameraVars, launcherVars>>

\* mutant: onclose does not touch the status
WsCloseSilent(s) ==
    /\ s \in 1..Len(sockets)
    /\ sockets[s] \in {"OPEN", "CLOSING"}
    /\ sockets' = [sockets EXCEPT ![s] = "CLOSED"]
    /\ UNCHANGED <<now, mounted, viewVars, refVars, lastEvent, statusInterval,
                   statusFetches, blinkInterval, blinkFetches, lipInterval,
                   lipFetches, lastPoll, voiceVars,
                   cameraVars, launcherVars>>

\* the close event of socket s (closed by the server, or after close()): onclose
WsClose(s) ==
    /\ s \in 1..Len(sockets)
    /\ sockets[s] \in {"OPEN", "CLOSING"}
    /\ sockets' = [sockets EXCEPT ![s] = "CLOSED"]
    /\ status' = SetState(status, "disconnected")
    /\ UNCHANGED <<now, mounted, currentEmotion, microData, cameraActive,
                   blinkStats, lipState, lipConfidence, displayedFlags,
                   stressHistory, refVars, lastEvent, statusInterval,
                   statusFetches, blinkInterval, blinkFetches, lipInterval,
                   lipFetches>>
    /\ UNCHANGED <<lastPoll, voiceVars, cameraVars, launcherVars>>

\* the connection of socket s fails: onerror, then onclose
WsError(s) ==
    /\ s \in 1..Len(sockets)
    /\ sockets[s] \in {"CONNECTING", "OPEN"}
    /\ sockets' = [sockets EXCEPT ![s] = "CLOSED"]
    /\ status' = SetState(status, "disconnected")
    /\ UNCHANGED <<now, mounted, currentEmotion, microData, cameraActive,
                   blinkStats, lipState, lipConfidence, displayedFlags,
                   stressHistory, refVars, lastEvent, statusInterval,
                   statusFetches, blinkInterval, blinkFetches, lipInterval,
                   lipFetches>>
    /\ UNCHANGED <<lastPoll, voiceVars, cameraVars, launcherVars>>

\* data.micro_expressions?.flags || []
FlagsOf(data) ==
    IF data.micro_expressions = None THEN <<>> ELSE data.micro_expressions[1].flags

Snapshot ==
    [currentEmotion |-> currentEmotion,
     lastEmotionChangeRef |-> lastEmotionChangeRef,
     lastUpdateRef |-> lastUpdateRef,
     displayedFlags |-> displayedFlags]

\* ws.onmessage of socket s, for a message that arrives at time `now`;
\* the setDisplayedFlags updater reads the clock again, `lag` ms later
OnMessage(s, data, lag) ==
    /\ s \in 1..Len(sockets)
    /\ sockets[s] = "OPEN"
    /\ lastUpdateRef' = ThrottleStep(now, lastUpdateRef).lastUpdateRef
    /\ IF ~ThrottleStep(now, lastUpdateRef).pass
       THEN /\ lastEvent' = [outcome |-> "dropped", data |-> data, at |-> now,
                             nowTs |-> now, before |-> Snapshot]
            /\ UNCHANGED <<now, viewVars, lastEmotionChangeRef,
                           pendingEmotionRef>>
       ELSE /\ TRUE
            /\ IF data.malformed
               THEN \* JSON.parse throws, the catch logs it
                    /\ lastEvent' = [outcome |-> "malformed", data |-> data,
                                     at |-> now, nowTs |-> now, before |-> Snapshot]
                    /\ UNCHANGED <<now, viewVars, lastEmotionChangeRef,
                                   pendingEmotionRef>>
               ELSE LET eu == EmotionUpdate(CapturedCurrentEmotion, data, now,
                                            currentEmotion, lastEmotionChangeRef,
                                            pendingEmotionRef)
                        micro == data.micro_expressions
                        nowTs == now + lag
                    IN  /\ currentEmotion' = SetState(currentEmotion, eu.currentEmotion)
                        /\ status' = SetState(status, eu.status)
                        /\ lastEmotionChangeRef' = eu.lastEmotionChangeRef
                        /\ pendingEmotionRef' = eu.pendingEmotionRef
                        /\ microData' = SetState(microData, micro)
                        /\ stressHistory' =
                              IF micro = None THEN stressHistory
                              ELSE SetState(stressHistory,
                                            PushHistory(stressHistory, micro[1].stress_index))
                        /\ displayedFlags' =
                              SetState(displayedFlags,
                                       NextFlags(displayedFlags, FlagsOf(data), nowTs))
                        /\ blinkStats' =
                              IF data.blink_count = None THEN blinkStats
                              ELSE SetState(blinkStats,
                                     [count |-> data.blink_count[1],
                                      perMin |-> IF micro = None THEN None
                                                 ELSE <<RoundDiv(micro[1].blink_rate, 10)>>])
                        /\ now' = nowTs
                        /\ lastEvent' = [outcome |-> "processed", data |-> data,
                                         at |-> now, nowTs |-> nowTs,
                                         before |-> Snapshot]
                        /\ UNCHANGED <<cameraActive, lipState, lipConfidence>>
    /\ UNCHANGED <<mounted, wsCurrent, envVars>>
    /\ UNCHANGED <<lastPoll, voiceVars, cameraVars, launcherVars>>

\* the blink-stats interval fires and starts its fetch
BlinkTimerFire ==
    /\ blinkInterval
    /\ blinkFetches < MaxInFlight
    /\ blinkFetches' = blinkFetches + 1
    /\ UNCHANGED <<now, mounted, viewVars, refVars, lastEvent, sockets,
                   statusInterval, statusFetches, blinkInterval, lipInterval,
                   lipFetches>>
    /\ UNCHANGED <<lastPoll, voiceVars, cameraVars, launcherVars>>

\* get_blink_stats answers; blink_per_min is optional and in tenths
BlinkPollOk(count, perMin) ==
    LET truthy == perMin # None /\ perMin[1] # 0 IN
    /\ blinkFetches > 0
    /\ blinkFetches' = blinkFetches - 1
    /\ blinkStats' = SetState(blinkStats,
                        [count |-> count, perMin |-> IF truthy THEN perMin ELSE None])
    /\ microData' =
          IF microData = None THEN microData
          ELSE SetState(microData,
                 <<[microData[1] EXCEPT
                      !.blink_rate = IF truthy THEN RoundDiv(perMin[1], 10) * 10 ELSE 0]>>)
    /\ UNCHANGED <<now, mounted, currentEmotion, status, cameraActive, lipState,
                   lipConfidence, displayedFlags, stressHistory, refVars,
                   lastEvent, sockets, statusInterval, statusFetches,
                   blinkInterval, lipInterval, lipFetches>>
    /\ lastPoll' = [poll |-> "blink", result |-> "ok"]
    /\ UNCHANGED <<voiceVars, cameraVars, launcherVars>>

\* mutant: the catch block resets the blink statistics
BlinkPollFailedResets ==
    /\ blinkFetches > 0
    /\ blinkFetches' = blinkFetches - 1
    /\ blinkStats' = SetState(blinkStats, [count |-> 0, perMin |-> None])
    /\ UNCHANGED <<now, mounted, currentEmotion, microData, status, cameraActive,
                   lipState, lipConfidence, displayedFlags, stressHistory,
                   refVars, lastEvent, sockets, statusInterval, statusFetches,
                   blinkInterval, lipInterval, lipFetches>>
    /\ lastPoll' = [poll |-> "blink", result |-> "failed"]
    /\ UNCHANGED <<voiceVars, cameraVars, launcherVars>>

\* the fetch fails: catch {}
BlinkPollFailed ==
    /\ blinkFetches > 0
    /\ blinkFetches' = blinkFetches - 1
    /\ UNCHANGED <<now, mounted, viewVars, refVars, lastEvent, sockets,
                   statusInterval, statusFetches, blinkInterval, lipInterval,
                   lipFetches>>
    /\ lastPoll' = [poll |-> "blink", result |-> "failed"]
    /\ UNCHANGED <<voiceVars, cameraVars, launcherVars>>

\* the predict_frame interval fires and starts its fetch
LipTimerFire ==
    /\ lipInterval
    /\ lipFetches < MaxInFlight
    /\ lipFetches' = lipFetches + 1
    /\ UNCHANGED <<now, mounted, viewVars, refVars, lastEvent, sockets,
                   statusInterval, statusFetches, blinkInterval, blinkFetches,
                   lipInterval>>
    /\ UNCHANGED <<lastPoll, voiceVars, cameraVars, launcherVars>>

\* mutant: a predict_frame answer also marks the backend as connected
LipPollOkSetsStatus(lip, confidence) ==
    /\ lipFetches > 0
    /\ lipFetches' = lipFetches - 1
    /\ lipState' = SetState(lipState, IF lip = "" THEN "lip_calm" ELSE lip)
    /\ lipConfidence' = SetState(lipConfidence, RoundDiv(confidence * 100, 1000))
    /\ status' = SetState(status, "connected")
    /\ UNCHANGED <<now, mounted, currentEmotion, microData, cameraActive,
                   blinkStats, displayedFlags, stressHistory, refVars, lastEvent,
                   sockets, statusInterval, statusFetches, blinkInterval,
                   blinkFetches, lipInterval>>
    /\ lastPoll' = [poll |-> "lip", result |-> "ok"]
    /\ UNCHANGED <<voiceVars, cameraVars, launcherVars>>

\* predict_frame answers; lip is "" when lip_state is missing, confidence in
\* thousandths
LipPollOk(lip, confidence) ==
    /\ lipFetches > 0
    /\ lipFetches' = lipFetches - 1
    /\ lipState' = SetState(lipState, IF lip = "" THEN "lip_calm" ELSE lip)
    /\ lipConfidence' = SetState(lipConfidence, RoundDiv(confidence * 100, 1000))
    /\ UNCHANGED <<now, mounted, currentEmotion, microData, status, cameraActive,
                   blinkStats, displayedFlags, stressHistory, refVars, lastEvent,
                   sockets, statusInterval, statusFetches, blinkInterval,
                   blinkFetches, lipInterval>>
    /\ lastPoll' = [poll |-> "lip", result |-> "ok"]
    /\ UNCHANGED <<voiceVars, cameraVars, launcherVars>>
LipPollFailed ==
    /\ lipFetches > 0
    /\ lipFetches' = lipFetches - 1
    /\ UNCHANGED <<now, mounted, viewVars, refVars, lastEvent, sockets,
                   statusInterval, statusFetches, blinkInterval, blinkFetches,
                   lipInterval>>
    /\ lastPoll' = [poll |-> "lip", result |-> "failed"]
    /\ UNCHANGED <<voiceVars, cameraVars, launcherVars>>

\* VoiceStatus: the 500 ms interval fires and starts its fetch
VoiceTimerFire ==
    /\ voiceInterval
    /\ voiceFetches < MaxInFlight
    /\ voiceFetches' = voiceFetches + 1
    /\ UNCHANGED <<now, mounted, viewVars, refVars, envVars, lastEvent, lastPoll,
                   voiceData, voiceError, voiceInterval>>
    /\ UNCHANGED <<cameraVars, launcherVars>>

\* VoiceStatus: voice/status answers 200 with a body
VoicePollOk(json) ==
    /\ voiceFetches > 0
    /\ voiceFetches' = voiceFetches - 1
    /\ voiceData' = SetState(voiceData, <<json>>)
    /\ voiceError' = SetState(voiceError, FALSE)
    /\ lastPoll' = [poll |-> "voice", result |-> "ok"]
    /\ UNCHANGED <<now, mounted, viewVars, refVars, envVars, lastEvent,
                   voiceInterval>>
    /\ UNCHANGED <<cameraVars, launcherVars>>

\* VoiceStatus: the response is not ok, or the fetch throws
VoicePollFailed ==
    /\ voiceFetches > 0
    /\ voiceFetches' = voiceFetches - 1
    /\ voiceError' = SetState(voiceError, TRUE)
    /\ lastPoll' = [poll |-> "voice", result |-> "failed"]
    /\ UNCHANGED <<now, mounted, viewVars, refVars, envVars, lastEvent,
                   voiceData, voiceInterval>>
    /\ UNCHANGED <<cameraVars, launcherVars>>

\* the component unmounts: the effect cleanups of App and VoiceStatus run
Teardown ==
    /\ mounted
    /\ mounted' = FALSE
    /\ statusInterval' = FALSE
    /\ blinkInterval' = FALSE
    /\ lipInterval' = FALSE
    /\ sockets' = IF wsCurrent = 0 THEN sockets
                  ELSE [sockets EXCEPT ![wsCurrent] = CloseSocket(sockets[wsCurrent])]
    /\ UNCHANGED <<now, viewVars, refVars, lastEvent, statusFetches,
                   blinkFetches, lipFetches>>
    /\ voiceInterval' = FALSE
    /\ UNCHANGED <<lastPoll, voiceData, voiceError, voiceFetches>>
    /\ retryTimer' = None
    /\ UNCHANGED <<isActive, imgError, retryKey, launcherVars>>

\* ------------------------------------------------------------------------
\* CameraFeed: reload of the MJPEG image after a load error
\* ------------------------------------------------------------------------
appVars == <<viewVars, refVars, envVars, lastEvent, lastPoll, voiceVars>>

\* mutant: the effect does not look at isActive
RetryEffectIgnoresActive(err, active, t) == IF err THEN <<t + RETRY_MS>> ELSE None

\* the retry effect, run after a render in which imgError or isActive
\* changed (the cleanup of the previous run has cleared its timer): the due
\* time of the new setTimeout, if one is set
RetryEffect(err, active, t) == IF err /\ active THEN <<t + RETRY_MS>> ELSE None

\* the <img> fires onError; it is rendered only while active and not in error
ImgError ==
    /\ mounted
    /\ isActive
    /\ ~imgError
    /\ retryKey < MaxRetries
    /\ imgError' = TRUE
    /\ retryTimer' = RetryEffect(TRUE, isActive, now)
    /\ UNCHANGED <<now, mounted, appVars, isActive, retryKey, launcherVars>>

\* the parent renders CameraFeed with another isActive
SetIsActive(b) ==
    /\ mounted
    /\ b # isActive
    /\ isActive' = b
    /\ retryTimer' = RetryEffect(imgError, b, now)
    /\ UNCHANGED <<now, mounted, appVars, imgError, retryKey, launcherVars>>

\* the setTimeout callback runs, at its due time or later
RetryTimerFire ==
    /\ retryTimer # None
    /\ now >= retryTimer[1]
    /\ imgError' = SetState(imgError, FALSE)
    /\ retryKey' = SetState(retryKey, retryKey + 1)
    /\ retryTimer' = RetryEffect(FALSE, isActive, now)
    /\ UNCHANGED <<now, mounted, appVars, isActive, launcherVars>>

\* ------------------------------------------------------------------------
\* runner.js: start()
\* ------------------------------------------------------------------------
BACKEND_PORT == 8000
FRONTEND_PORT == 5173

\* mutant: the loop test is attempts <= maxAttempts
MoreAttemptsOffByOne(n) == n <= MAX_ATTEMPTS

\* the while test for a check that has just failed n times in all
MoreAttempts(n) == n < MAX_ATTEMPTS

\* await killPort(CONFIG.backend.port)
KillBackendPort ==
    /\ pc = "killBackendPort"
    /\ portsCleaned' = portsCleaned \cup {BACKEND_PORT}
    /\ pc' = "killFrontendPort"
    /\ UNCHANGED <<now, mounted, appVars, cameraVars, spawned, backendReady, attempts>>

\* await killPort(CONFIG.frontend.port), then the 1000 ms pause
KillFrontendPort ==
    /\ pc = "killFrontendPort"
    /\ portsCleaned' = portsCleaned \cup {FRONTEND_PORT}
    /\ pc' = "spawnBackend"
    /\ UNCHANGED <<now, mounted, appVars, cameraVars, spawned, backendReady, attempts>>

\* spawn(pythonCmd, ...) and entry into the health loop
SpawnBackend ==
    /\ pc = "spawnBackend"
    /\ spawned' = spawned \cup {"backend"}
    /\ pc' = IF ~backendReady /\ MoreAttempts(attempts) THEN "checkBackendHealth"
             ELSE "spawnFrontend"
    /\ UNCHANGED <<now, mounted, appVars, cameraVars, portsCleaned, backendReady, attempts>>

\* backendReady = await checkBackendHealth(port): 200, or another status,
\* an error or the 1000 ms timeout
CheckBackendHealth(ok) ==
    /\ pc = "checkBackendHealth"
    /\ backendReady' = ok
    /\ pc' = IF ok THEN "spawnFrontend" ELSE "checkInterval"
    /\ UNCHANGED <<now, mounted, appVars, cameraVars, portsCleaned, spawned, attempts>>

\* the 500 ms pause after a failed check, attempts++ and the while test
CheckInterval ==
    /\ pc = "checkInterval"
    /\ attempts' = attempts + 1
    /\ pc' = IF MoreAttempts(attempts + 1) THEN "checkBackendHealth"
             ELSE "spawnFrontend"
    /\ UNCHANGED <<now, mounted, appVars, cameraVars, portsCleaned, spawned, backendReady>>

\* spawn(CONFIG.frontend.command, ...)
SpawnFrontend ==
    /\ pc = "spawnFrontend"
    /\ spawned' = spawned \cup {"frontend"}
    /\ pc' = "ready"
    /\ UNCHANGED <<now, mounted, appVars, cameraVars, portsCleaned, backendReady, attempts>>

\* ------------------------------------------------------------------------
\* Specifications
\* ------------------------------------------------------------------------
Happy == Msg(TRUE, "Happy", 874, None, None)
Sad == Msg(TRUE, "Sad", 615, None, None)
NoFace == Msg(FALSE, Null, 0, None, None)
NoLabel == Msg(TRUE, Null, 0, None, None)

\* a burst of messages on the first channel: arrivals 50 ms apart and more
ThrottleDeltas == {50, 250}
ThrottleHorizon == 1000
ThrottleMsgs == {Happy, Sad, Malformed}

NextThrottle ==
    \/ \E d \in ThrottleDeltas :
          now + d <= StartTime + ThrottleHorizon /\ Advance(d)
    \/ CheckStatusHealthy(TRUE)
    \/ \E s \in 1..MaxSockets : WsOpen(s)
    \/ \E s \in 1..MaxSockets, data \in ThrottleMsgs : OnMessage(s, data, 0)

SpecThrottle == Init /\ [][NextThrottle]_vars

\* emotion labels arriving half a second apart and more
EmotionDeltas == {500, 700}
EmotionHorizon == 2900
EmotionMsgs == {Happy, Sad, NoFace, NoLabel}

NextEmotionStream ==
    \/ \E d \in EmotionDeltas :
          now + d <= StartTime + EmotionHorizon /\ Advance(d)
    \/ CheckStatusHealthy(TRUE)
    \/ \E s \in 1..MaxSockets : WsOpen(s)
    \/ \E s \in 1..MaxSockets, data \in EmotionMsgs : OnMessage(s, data, 0)

SpecEmotion == Init /\ [][NextEmotionStream]_vars

\* stress samples 300 ms apart, with the blink poll and a failing channel
Stress(v) == Msg(TRUE, "Happy", 874, Micro(v, 174, <<>>), <<3>>)
BufferDeltas == {300}
BufferHorizon == 900
BufferMsgs == {Stress(10), Stress(20), Stress(150), Stress(-5), NoFace}

NextBuffer ==
    \/ \E d \in BufferDeltas :
          now + d <= StartTime + BufferHorizon /\ Advance(d)
    \/ CheckStatusHealthy(TRUE)
    \/ \E s \in 1..MaxSockets : WsOpen(s)
    \/ \E s \in 1..MaxSockets : WsError(s)
    \/ \E s \in 1..MaxSockets, data \in BufferMsgs : OnMessage(s, data, 0)
    \/ BlinkTimerFire
    \/ BlinkPollOk(7, <<176>>)
    \/ BlinkPollFailed

SpecBuffer == Init /\ [][NextBuffer]_vars

\* flag lists a second apart; the flags updater reads the clock up to 1 ms
\* after the handler did
Flags(fs) == Msg(TRUE, "Happy", 874, Micro(40, 174, fs), None)
AlertDeltas == {1000, 1100}
AlertHorizon == 3300
AlertLags == {0, 1}
AlertMsgs ==
    {Flags(<<>>), Flags(<<"A", "B">>), Flags(<<"A", "B", "C", "D", "E", "F">>),
     Flags(<<"F", "G", "A">>), NoFace}

NextAlerts ==
    \/ \E d \in AlertDeltas :
          now + d <= StartTime + AlertHorizon /\ Advance(d)
    \/ CheckStatusHealthy(TRUE)
    \/ \E s \in 1..MaxSockets : WsOpen(s)
    \/ \E s \in 1..MaxSockets, data \in AlertMsgs, lag \in AlertLags :
          now + lag <= StartTime + AlertHorizon /\ OnMessage(s, data, lag)

SpecAlerts == Init /\ [][NextAlerts]_vars

\* the session: status poll, channels, messages, unmount
Deltas == {300}
Msgs == {Happy, NoFace}

Next ==
    \/ \E d \in Deltas : now + d <= StartTime + Horizon /\ Advance(d)
    \/ StatusTimerFire
    \/ \E v \in BOOLEAN : CheckStatusHealthy(v)
    \/ CheckStatusUnhealthy
    \/ CheckStatusFailed
    \/ \E s \in 1..MaxSockets : WsOpen(s)
    \/ \E s \in 1..MaxSockets : WsClose(s)
    \/ \E s \in 1..MaxSockets : WsError(s)
    \/ \E s \in 1..MaxSockets, data \in Msgs : OnMessage(s, data, 0)
    \/ Teardown

Spec == Init /\ [][Next]_vars

\* ------------------------------------------------------------------------
\* Properties
\* ------------------------------------------------------------------------
\* the last message passed the throttle and was parsed
Accepted == lastEvent.outcome = "processed"

\* the last message passed the throttle (parsed or not)
Forwarded == lastEvent.outcome \in {"processed", "malformed"}

\* the last accepted event named an emotion other than the one displayed
\* when it arrived
Differs ==
    /\ Accepted
    /\ lastEvent.data.faceDetected
    /\ lastEvent.data.emotion # Null
    /\ lastEvent.before.currentEmotion # None
    /\ lastEvent.before.currentEmotion[1].name # lastEvent.data.emotion

InsideDwell == lastEvent.at - lastEvent.before.lastEmotionChangeRef < DWELL_MS

\* C1: an accepted face-detected event that names another emotion than the
\* displayed one, less than 2000 ms after lastChangeAt, leaves the displayed
\* emotion unchanged.
C1_FlickerDamped ==
    (Differs /\ InsideDwell) => currentEmotion = lastEvent.before.currentEmotion

\* C2 (as claimed): the event forwarded for a window is the last one that
\* arrived in it, so once the window that started at the last forwarded event
\* is over, the most recent message is not a dropped one.
C2_LastWins ==
    lastEvent.outcome = "dropped" => now - lastUpdateRef < THROTTLE_MS

\* C2 (amended): the event forwarded for a window is the first one, the one
\* that arrives at least 300 ms after the previously forwarded event; every
\* later event within 300 ms of it is dropped and never reaches the view.
C2_FirstWins ==
    lastEvent.outcome # "none" =>
        /\ lastEvent.outcome = "dropped"
              <=> lastEvent.at - lastEvent.before.lastUpdateRef < THROTTLE_MS
        /\ lastEvent.outcome = "dropped" =>
              /\ lastUpdateRef = lastEvent.before.lastUpdateRef
              /\ currentEmotion = lastEvent.before.currentEmotion

C2_Witness ==
    /\ lastEvent.outcome = "dropped"
    /\ lastEvent.at = lastUpdateRef + 250
    /\ currentEmotion # None
    /\ lastEvent.data.emotion # currentEmotion[1].name

\* C3: two consecutively forwarded events are at least 300 ms apart.
C3_RateBound ==
    Forwarded =>
        /\ lastUpdateRef = lastEvent.at
        /\ lastEvent.at - lastEvent.before.lastUpdateRef >= THROTTLE_MS

C3_Witness ==
    /\ Forwarded
    /\ lastEvent.before.lastUpdateRef >= StartTime
    /\ lastEvent.at = lastEvent.before.lastUpdateRef + THROTTLE_MS

\* C7: after an accepted event with faceDetected = false the displayed
\* emotion is null, however recent lastChangeAt is.
C7_FaceLossImmediate ==
    (Accepted /\ ~lastEvent.data.faceDetected) => currentEmotion = None

C7_Witness ==
    /\ Accepted
    /\ ~lastEvent.data.faceDetected
    /\ lastEvent.before.currentEmotion # None
    /\ InsideDwell
    /\ currentEmotion = None

\* C8: while only another emotion is reported, the displayed one stays on
\* every accepted event with now - lastChangeAt < 2000 and is replaced on the
\* first accepted event with now - lastChangeAt >= 2000.
C8_CommitAtDwellBoundary ==
    Differs =>
        /\ currentEmotion # None
        /\ currentEmotion[1].name =
              IF InsideDwell THEN lastEvent.before.currentEmotion[1].name
              ELSE lastEvent.data.emotion

\* the last n elements of a sequence
LastN(h, n) == SubSeq(h, Len(h) - n + 1, Len(h))

InRange(v) == 0 <= v /\ v <= 100

\* C4 (as claimed): every element of the stored history lies in [0,100].
C4_StoredClamped ==
    \A i \in 1..Len(stressHistory) : InRange(stressHistory[i])

\* C4 (amended): a push shifts the history by one and appends the sample as
\* it came; it is the bar height computed from each element that lies in
\* [0,100], so after 10, 20, 150, -5 the stored tail is 10, 20, 150, -5 and
\* the drawn tail is 10, 20, 100, 0.
C4_PushShiftsRenderClamps ==
    [][/\ \A i \in 1..Len(stressHistory') : InRange(BarHeight(stressHistory'[i]))
       /\ stressHistory' # stressHistory =>
             /\ lastEvent'.outcome = "processed"
             /\ lastEvent'.data.micro_expressions # None
             /\ stressHistory' =
                   SubSeq(stressHistory, 2, HISTORY_LEN)
                      \o <<lastEvent'.data.micro_expressions[1].stress_index>>
             /\ BarHeight(stressHistory'[HISTORY_LEN]) =
                   IF stressHistory'[HISTORY_LEN] < 0 THEN 0
                   ELSE IF stressHistory'[HISTORY_LEN] > 100 THEN 100
                   ELSE stressHistory'[HISTORY_LEN]]_vars

C4_Witness ==
    /\ LastN(stressHistory, 4) = <<10, 20, 150, -5>>
    /\ [i \in 1..4 |-> BarHeight(LastN(stressHistory, 4)[i])] = <<10, 20, 100, 0>>
    /\ Len(stressHistory) = HISTORY_LEN

\* C5: the stress history has exactly 60 elements in every reachable state.
C5_HistoryLength == Len(stressHistory) = HISTORY_LEN

C5_Witness ==
    /\ Len(stressHistory) = HISTORY_LEN
    /\ LastN(stressHistory, 4) = <<150, 150, 150, 150>>
    /\ sockets[1] = "CLOSED"
    /\ blinkStats.count = 7

Texts(fs) == {fs[i].text : i \in 1..Len(fs)}

\* the flags the last accepted event reported, as the updater takes them
Incoming == Range(Slice0(FlagsOf(lastEvent.data), MAX_FLAGS))

\* C6: the visible alert list holds at most 5 records.
C6_AtMostFive == Len(displayedFlags) <= MAX_FLAGS

C6_Witness ==
    /\ Accepted
    /\ Len(displayedFlags) = MAX_FLAGS
    /\ Len(lastEvent.before.displayedFlags) = MAX_FLAGS
    /\ \E f \in Incoming : f \notin Texts(lastEvent.before.displayedFlags)
    /\ \A r \in Range(lastEvent.before.displayedFlags) :
          lastEvent.nowTs - r.ts < MIN_VISIBLE_MS

\* C9: a visible alert that the accepted tick does not report stays visible
\* when now - firstSeenAt < 3000 and is gone when now - firstSeenAt >= 3000.
C9_MinVisibleThenExpire ==
    Accepted =>
        \A r \in Range(lastEvent.before.displayedFlags) :
            r.text \notin Incoming =>
                IF lastEvent.nowTs - r.ts < MIN_VISIBLE_MS
                THEN r \in Range(displayedFlags)
                ELSE r.text \notin Texts(displayedFlags)

C9_Witness ==
    /\ Accepted
    /\ Incoming = {}
    /\ \E r1, r2 \in Range(lastEvent.before.displayedFlags) :
          /\ lastEvent.nowTs - r1.ts = MIN_VISIBLE_MS
          /\ r1.text \notin Texts(displayedFlags)
          /\ lastEvent.nowTs - r2.ts >= 2000
          /\ r2 \in Range(displayedFlags)

\* C10: after teardown no resource is live: the status timer and the poll
\* timers are cleared and no push channel is open or opening, whatever was in
\* flight when teardown ran.
C10_TeardownReleasesAll ==
    ~mounted =>
        /\ ~statusInterval
        /\ ~blinkInterval
        /\ ~lipInterval
        /\ \A s \in 1..Len(sockets) : sockets[s] \notin {"CONNECTING", "OPEN"}

\* The supplementary polls next to the event stream: blink statistics and lip
\* classification of App, voice status of VoiceStatus.
VoiceJson(level, score) == [stress_level |-> level, stress_score |-> score]

PollMsgs == {Stress(10), Flags(<<"A", "B">>), NoFace}

NextPolls ==
    \/ CheckStatusHealthy(TRUE)
    \/ WsOpen(1)
    \/ WsError(1)
    \/ \E data \in PollMsgs : OnMessage(1, data, 0)
    \/ BlinkTimerFire
    \/ BlinkPollOk(7, <<176>>)
    \/ BlinkPollFailed
    \/ LipTimerFire
    \/ \E r \in {<<"lip_tense", 800>>, <<"", 0>>} : LipPollOk(r[1], r[2])
    \/ LipPollFailed
    \/ VoiceTimerFire
    \/ VoicePollOk(VoiceJson("HIGH", 72))
    \/ VoicePollFailed

SpecPolls == Init /\ [][NextPolls]_vars

\* The backend is healthy: every health poll reports backendConnected = true
\* and the connection attempt that the socket bound leaves last succeeds and
\* stays up; earlier channels may fail at any time.  The component stays
\* mounted.  Timers, fetch completions and socket opens are fair: the browser
\* runs a pending timer callback, promise continuation or socket event.
MayFail(s) == s < MaxSockets

NextLive ==
    \/ \E d \in Deltas : now + d <= StartTime + Horizon /\ Advance(d)
    \/ StatusTimerFire
    \/ \E v \in BOOLEAN : CheckStatusHealthy(v)
    \/ \E s \in 1..MaxSockets : WsOpen(s)
    \/ \E s \in 1..MaxSockets : MayFail(s) /\ WsClose(s)
    \/ \E s \in 1..MaxSockets : MayFail(s) /\ WsError(s)
    \/ \E s \in 1..MaxSockets, data \in Msgs : OnMessage(s, data, 0)

SpecLive ==
    /\ Init
    /\ [][NextLive]_vars
    /\ WF_vars(StatusTimerFire)
    /\ WF_vars(\E v \in BOOLEAN : CheckStatusHealthy(v))
    /\ \A s \in 1..MaxSockets : WF_vars(WsOpen(s))

\* The camera feed alone: load errors, the parent switching isActive, the
\* retry timer, unmount.
CameraDeltas == {1000, 2000}
CameraHorizon == 9000

NextCamera ==
    \/ \E d \in CameraDeltas : now + d <= StartTime + CameraHorizon /\ Advance(d)
    \/ ImgError
    \/ \E b \in BOOLEAN : SetIsActive(b)
    \/ RetryTimerFire
    \/ Teardown

SpecCamera == Init /\ [][NextCamera]_vars

\* The launcher: every step of start() is a callback node runs when its
\* promise settles.
NextLauncher ==
    \/ KillBackendPort
    \/ KillFrontendPort
    \/ SpawnBackend
    \/ \E ok \in BOOLEAN : CheckBackendHealth(ok)
    \/ CheckInterval
    \/ SpawnFrontend

SpecLauncher == Init /\ [][NextLauncher]_vars /\ WF_vars(NextLauncher)

\* ------------------------------------------------------------------------
\* Connection properties
\* ------------------------------------------------------------------------
Live == {s \in 1..Len(sockets) : sockets[s] \in {"CONNECTING", "OPEN"}}
Open == {s \in 1..Len(sockets) : sockets[s] = "OPEN"}

\* the step is the open event of a channel
OpenStep == \E s \in 1..Len(sockets) : sockets[s] = "CONNECTING" /\ sockets'[s] = "OPEN"

\* the step is the close or error event of a channel
CloseStep == \E s \in 1..Len(sockets) : sockets[s] # "CLOSED" /\ sockets'[s] = "CLOSED"

\* the step is a checkStatus call resuming with the given result
StatusPollStep(result) ==
    /\ statusFetches' = statusFetches - 1
    /\ lastPoll' = [poll |-> "status", result |-> result]

\* the step is onmessage running past the throttle and the parse
ProcessedStep == lastEvent' # lastEvent /\ lastEvent'.outcome = "processed"

\* C11: at most one push channel is open or opening at any time.
C11_SingleChannel == Cardinality(Live) <= 1

\* C12 (as claimed): whenever the state is Connected or Processing, a push
\* channel is open.
C12_ConnectedImpliesOpen ==
    status \in {"connected", "processing"} => Open # {}

\* C12 (amended): while the component is mounted, Processing implies an open
\* channel; the state is put into Connected or Processing only by a health
\* poll that reports the backend up (before the channel it creates is open),
\* by a channel open event or by an accepted message.
C12_ProcessingImpliesOpen ==
    [][/\ (mounted' /\ status' = "processing") =>
             \E s \in 1..Len(sockets') : sockets'[s] = "OPEN"
       /\ (status' # status /\ status' \in {"connected", "processing"}) =>
             StatusPollStep("healthy") \/ OpenStep \/ ProcessedStep]_vars

C12_Witness ==
    /\ mounted
    /\ status = "processing"
    /\ Open # {}
    /\ \E s \in 1..Len(sockets) : sockets[s] = "CLOSED"

\* C13 (as claimed): whenever the state is Disconnected, no push channel is
\* open.
C13_DisconnectedImpliesNoOpen == status = "disconnected" => Open = {}

\* C13 (amended): the state becomes Disconnected only on the close or error
\* event of a channel or when the health poll's fetch fails; a channel can
\* still be open then.
C13_DisconnectedOnlyOnCloseOrFailedPoll ==
    [][(status' = "disconnected" /\ status # "disconnected") =>
          CloseStep \/ StatusPollStep("failed")]_vars

C13_Witness ==
    /\ status = "disconnected"
    /\ Open # {}
    /\ lastPoll = [poll |-> "status", result |-> "failed"]

\* C14: while a channel is open, the state is Processing exactly when the
\* most recent accepted event had faceDetected = true.
C14_ProcessingIffFace ==
    (mounted /\ Open # {} /\ Accepted) =>
        (status = "processing" <=> lastEvent.data.faceDetected)

\* C15: the close or error event of a channel makes the state Disconnected
\* and creates no channel; a channel is created only by a health poll that
\* reports backendConnected = true; a poll that reports the backend down or
\* fails creates none.
C15_ReconnectOnlyByHealthyPoll ==
    [][/\ CloseStep =>
             /\ mounted => status' = "disconnected"
             /\ Len(sockets') = Len(sockets)
       /\ Len(sockets') > Len(sockets) => StatusPollStep("healthy")
       /\ (StatusPollStep("unhealthy") \/ StatusPollStep("failed")) =>
             sockets' = sockets]_vars

C15_Witness ==
    /\ Len(sockets) = 1
    /\ sockets[1] = "CLOSED"
    /\ status = "disconnected"
    /\ lastPoll = [poll |-> "status", result |-> "unhealthy"]

\* C16: when the push channel has closed or failed and no channel is open,
\* the health poll eventually gets a channel open again and the state leaves
\* Disconnected (backend healthy, component mounted, fair timers).
C16_AutoReconnect ==
    (mounted /\ Open = {} /\ \E s \in 1..Len(sockets) : sockets[s] = "CLOSED")
        ~> (Open # {} /\ status # "disconnected")

C16_Witness ==
    /\ mounted
    /\ Len(sockets) >= 2
    /\ sockets[1] = "CLOSED"
    /\ sockets[Len(sockets)] = "OPEN"
    /\ wsCurrent = Len(sockets)
    /\ status # "disconnected"

\* ------------------------------------------------------------------------
\* Message handling properties
\* ------------------------------------------------------------------------
\* the step is onmessage handling a message
MessageStep == lastEvent' # lastEvent

\* C17: a malformed message leaves the displayed emotion, lastChangeAt, the
\* alert records and the throttle's last-accepted time as they were before it
\* arrived.
C17_MalformedChangesNothing ==
    lastEvent.outcome = "malformed" =>
        /\ currentEmotion = lastEvent.before.currentEmotion
        /\ lastEmotionChangeRef = lastEvent.before.lastEmotionChangeRef
        /\ displayedFlags = lastEvent.before.displayedFlags
        /\ lastUpdateRef = lastEvent.before.lastUpdateRef

\* C19: a message is dropped exactly when it arrives less than 300 ms after
\* the last accepted one, whether or not it would parse, and a dropped
\* message changes neither the view model nor any ref (the throttle's
\* last-accepted time included).
C19_DroppedNoSideEffects ==
    [][MessageStep =>
          /\ lastEvent'.outcome = "dropped" <=> now - lastUpdateRef < THROTTLE_MS
          /\ lastEvent'.outcome = "dropped" => UNCHANGED <<viewVars, refVars>>]_vars

C19_Witness ==
    /\ lastEvent.outcome = "dropped"
    /\ ~lastEvent.data.malformed
    /\ lastEvent.data.emotion = "Sad"
    /\ currentEmotion # None
    /\ currentEmotion[1].name = "Happy"
    /\ lastUpdateRef < lastEvent.at

FailedPollStep(poll) == lastPoll'.result = "failed" /\ lastPoll'.poll = poll

\* C18: a failed blink, lip or voice poll leaves every view-model field, the
\* stored voice data and the connection state as they were (the voice panel
\* only raises its error flag); its interval stays armed and the failure
\* starts no further fetch.
C18_FailedPollKeepsLastKnown ==
    [][/\ (FailedPollStep("blink") /\ blinkFetches' < blinkFetches) =>
             /\ UNCHANGED <<viewVars, voiceVars, refVars>>
             /\ blinkInterval' = blinkInterval
             /\ blinkFetches' = blinkFetches - 1
             /\ UNCHANGED <<lipFetches, statusFetches>>
       /\ (FailedPollStep("lip") /\ lipFetches' < lipFetches) =>
             /\ UNCHANGED <<viewVars, voiceVars, refVars>>
             /\ lipInterval' = lipInterval
             /\ lipFetches' = lipFetches - 1
             /\ UNCHANGED <<blinkFetches, statusFetches>>
       /\ (FailedPollStep("voice") /\ voiceFetches' < voiceFetches) =>
             /\ UNCHANGED <<viewVars, voiceData, refVars>>
             /\ voiceInterval' = voiceInterval
             /\ voiceFetches' = voiceFetches - 1
             /\ UNCHANGED <<blinkFetches, lipFetches, statusFetches>>]_vars

C18_Witness ==
    /\ lastPoll = [poll |-> "blink", result |-> "failed"]
    /\ blinkStats = [count |-> 7, perMin |-> <<176>>]
    /\ lipState = "lip_tense"
    /\ voiceData = <<VoiceJson("HIGH", 72)>>
    /\ voiceError
    /\ status = "processing"
    /\ blinkInterval

\* ------------------------------------------------------------------------
\* Alert records
\* ------------------------------------------------------------------------
\* the flags of the last accepted event in the order the updater walks them
IncomingSeq == Slice0(FlagsOf(lastEvent.data), MAX_FLAGS)

Before == lastEvent.before.displayedFlags

\* first index of x in seq
Pos(seq, x) == CHOOSE i \in 1..Len(seq) : seq[i] = x /\ \A j \in 1..(i - 1) : seq[j] # x

\* insertion order of a record in the updater's map: the records of prev in
\* their order, then the new texts in the order of incoming
MapOrder(r) ==
    IF r \in Range(Before) THEN Pos(Before, r)
    ELSE Len(Before) + Pos(IncomingSeq, r.text)

\* C21: no two visible records have the same text, and a record whose text
\* is reported again stays in the list with its firstSeenAt.
C21_TextIsIdentity ==
    /\ \A i, j \in 1..Len(displayedFlags) :
          displayedFlags[i].text = displayedFlags[j].text => i = j
    /\ Accepted =>
          \A r \in Range(Before) : r.text \in Incoming => r \in Range(displayedFlags)

C21_Witness ==
    /\ Accepted
    /\ \E r \in Range(Before) :
          /\ r.text \in Incoming
          /\ r.ts < lastEvent.nowTs
          /\ r \in Range(displayedFlags)
    /\ \E f \in Incoming : f \notin Texts(Before) /\ f \in Texts(displayedFlags)

\* C22: the visible list is ordered by non-decreasing firstSeenAt, and
\* records with equal firstSeenAt are in the order in which they were tracked.
C22_OldestFirstStable ==
    /\ \A i, j \in 1..Len(displayedFlags) :
          i < j => displayedFlags[i].ts <= displayedFlags[j].ts
    /\ Accepted =>
          \A i, j \in 1..Len(displayedFlags) :
             (i < j /\ displayedFlags[i].ts = displayedFlags[j].ts) =>
                 MapOrder(displayedFlags[i]) < MapOrder(displayedFlags[j])

C22_Witness ==
    /\ Accepted
    /\ \E i, j, k \in 1..Len(displayedFlags) :
          /\ i < j /\ j < k
          /\ displayedFlags[i].ts < displayedFlags[j].ts
          /\ displayedFlags[j].ts = displayedFlags[k].ts

\* C23: the alert step runs on every accepted event, whatever it carries:
\* after it no record is visible that the event does not report and that is
\* 3000 ms old or older, so such a record is gone at the first accepted event
\* that finds it expired.
C23_LifecycleRunsOnEveryEvent ==
    Accepted =>
        \A r \in Range(displayedFlags) :
            r.text \in Incoming \/ lastEvent.nowTs - r.ts < MIN_VISIBLE_MS

C23_Witness ==
    /\ Accepted
    /\ ~lastEvent.data.faceDetected
    /\ lastEvent.data.micro_expressions = None
    /\ Before # <<>>
    /\ displayedFlags = <<>>

\* C25 (as claimed): every text the accepted event reports is visible.
C25_ReportedIsShown == Accepted => Incoming \subseteq Texts(displayedFlags)

\* C25 (amended): a reported text that was already visible stays visible; a
\* newly reported text is visible unless the list is full.
C25_ReportedShownUnlessFull ==
    Accepted =>
        \A f \in Incoming :
            \/ f \in Texts(displayedFlags)
            \/ f \notin Texts(Before) /\ Len(displayedFlags) = MAX_FLAGS

C25_Witness ==
    /\ Accepted
    /\ \E f \in Incoming : f \notin Texts(displayedFlags)
    /\ \E r \in Range(displayedFlags) : r.text \notin Incoming
    /\ \E r \in Range(Before) :
          /\ r.text \in Incoming
          /\ lastEvent.nowTs - r.ts >= MIN_VISIBLE_MS
          /\ r \in Range(displayedFlags)

\* C28: a visible record that is reported or younger than 3000 ms stays
\* visible with its firstSeenAt, whatever else is reported; the records the
\* cap drops are the newest and, among those created by the same event, the
\* last reported.
C28_CapKeepsVisible ==
    Accepted =>
        /\ \A r \in Range(Before) :
              (r.text \in Incoming \/ lastEvent.nowTs - r.ts < MIN_VISIBLE_MS)
                  => r \in Range(displayedFlags)
        /\ \A f \in Incoming \ Texts(displayedFlags) :
              \A d \in Range(displayedFlags) :
                  \/ d.ts < lastEvent.nowTs
                  \/ Pos(IncomingSeq, d.text) < Pos(IncomingSeq, f)

C28_Witness ==
    /\ Accepted
    /\ Before # <<>>
    /\ \E f \in Incoming : f \notin Texts(displayedFlags)
    /\ \E d \in Range(displayedFlags) : d.ts = lastEvent.nowTs

\* ------------------------------------------------------------------------
\* Displayed emotion
\* ------------------------------------------------------------------------
Labelled == lastEvent.data.faceDetected /\ lastEvent.data.emotion # Null

\* C26: an accepted event that names the displayed emotion refreshes
\* lastChangeAt and the displayed record; one that names another emotion less
\* than 2000 ms after lastChangeAt leaves the displayed emotion as it is.
C26_DwellFromLatestSameName ==
    (Accepted /\ Labelled /\ lastEvent.before.currentEmotion # None) =>
        IF lastEvent.data.emotion = lastEvent.before.currentEmotion[1].name
        THEN /\ lastEmotionChangeRef = lastEvent.at
             /\ currentEmotion = NextEmotion(lastEvent.data)
        ELSE InsideDwell => currentEmotion = lastEvent.before.currentEmotion

\* C27 (as claimed): after an accepted event with faceDetected = true the
\* displayed emotion is not null; it is null only after an event with
\* faceDetected = false.
C27_NullOnlyOnNoFace ==
    Accepted => (currentEmotion = None <=> ~lastEvent.data.faceDetected)

\* C27 (amended): after an accepted event the displayed emotion is null
\* exactly when the event had no face or no emotion label; otherwise its name
\* is the event's emotion or the name displayed before.
C27_NullIffNoFaceOrNoLabel ==
    Accepted =>
        IF Labelled
        THEN /\ currentEmotion # None
             /\ \/ currentEmotion[1].name = lastEvent.data.emotion
                \/ /\ lastEvent.before.currentEmotion # None
                   /\ currentEmotion[1].name = lastEvent.before.currentEmotion[1].name
        ELSE currentEmotion = None

C27_Witness ==
    /\ Accepted
    /\ lastEvent.data.faceDetected
    /\ lastEvent.data.emotion = Null
    /\ lastEvent.before.currentEmotion # None
    /\ currentEmotion = None

\* the step is the completion (answer or failure) of a fetch of that poll
BlinkPollStep == blinkFetches' < blinkFetches
LipPollStep == lipFetches' < lipFetches
VoicePollStep == voiceFetches' < voiceFetches

\* microData is the same but for its blink_rate
OnlyBlinkRateChanges ==
    \/ microData' = microData
    \/ /\ microData # None
       /\ microData' # None
       /\ [microData'[1] EXCEPT !.blink_rate = microData[1].blink_rate] = microData[1]

\* C24: the completion of a blink, lip or voice poll, answered or failed,
\* leaves the displayed emotion, lastChangeAt, pending, the stress history,
\* the alert records, the throttle's last-accepted time and the connection
\* state unchanged, and writes only that poll's own fields.
C24_PollWritesOwnFields ==
    [][/\ (BlinkPollStep \/ LipPollStep \/ VoicePollStep) =>
             UNCHANGED <<currentEmotion, lastEmotionChangeRef, pendingEmotionRef,
                         stressHistory, displayedFlags, lastUpdateRef, status,
                         cameraActive>>
       /\ BlinkPollStep =>
             OnlyBlinkRateChanges /\ UNCHANGED <<lipState, lipConfidence, voiceData, voiceError>>
       /\ LipPollStep =>
             UNCHANGED <<blinkStats, microData, voiceData, voiceError>>
       /\ VoicePollStep =>
             UNCHANGED <<blinkStats, microData, lipState, lipConfidence>>]_vars

C24_Witness ==
    /\ lastPoll = [poll |-> "blink", result |-> "ok"]
    /\ microData # None
    /\ Accepted
    /\ lastEvent.data.micro_expressions # None
    /\ microData[1].blink_rate # lastEvent.data.micro_expressions[1].blink_rate
    /\ blinkStats.count = 7
    /\ displayedFlags # <<>>
    /\ currentEmotion # None
    /\ status = "processing"
    /\ lipState = "lip_tense"
    /\ voiceData # None

\* ------------------------------------------------------------------------
\* CameraFeed retry
\* ------------------------------------------------------------------------
\* C29: a load error happens only while isActive and sets a timer due 3000 ms
\* later; the error flag is cleared only by that timer, at its due time or
\* later, in a step that adds exactly 1 to retryKey; retryKey never
\* decreases; a timer is pending exactly while the component is mounted,
\* active and in error, and a change of isActive or of the error flag or the
\* unmount leaves no timer set earlier.
C29_RetryAfterThreeSeconds ==
    [][/\ retryKey' >= retryKey
       /\ (retryKey' # retryKey \/ (imgError /\ ~imgError')) =>
             /\ retryKey' = retryKey + 1
             /\ imgError /\ ~imgError'
             /\ isActive
             /\ retryTimer # None
             /\ now >= retryTimer[1]
       /\ (~imgError /\ imgError') => isActive /\ retryTimer' = <<now + RETRY_MS>>
       /\ retryTimer' # None <=> (imgError' /\ isActive' /\ mounted')
       /\ (isActive' # isActive \/ imgError' # imgError \/ mounted' # mounted) =>
             retryTimer' \in {None, <<now + RETRY_MS>>}]_vars

C29_Witness ==
    /\ mounted
    /\ isActive
    /\ ~imgError
    /\ retryKey >= 2
    /\ retryTimer = None

\* ------------------------------------------------------------------------
\* Launcher
\* ------------------------------------------------------------------------
\* C30: the backend is spawned after killPort has resolved for both ports;
\* the frontend is spawned after the backend and after the health loop, which
\* ends at the first successful check or after 60 failed ones; the frontend
\* is eventually spawned.
C30_StartOrderAndTermination ==
    /\ [](/\ "backend" \in spawned => portsCleaned = {BACKEND_PORT, FRONTEND_PORT}
          /\ "frontend" \in spawned =>
                /\ "backend" \in spawned
                /\ pc = "ready"
                /\ backendReady \/ attempts = MAX_ATTEMPTS
          /\ pc \in {"checkBackendHealth", "checkInterval"} =>
                /\ ~backendReady
                /\ attempts < MAX_ATTEMPTS
                /\ spawned = {"backend"}
          /\ backendReady => pc \in {"spawnFrontend", "ready"}
          /\ attempts <= MAX_ATTEMPTS)
    /\ <>("frontend" \in spawned)

C30_Witness ==
    /\ "frontend" \in spawned
    /\ ~backendReady
    /\ attempts = MAX_ATTEMPTS

====
